---- MODULE Spec2Model ----
(***************************************************************************)
(* git-fleet: the fleet orchestrator (FleetManager, MultiRootFleetManager), *)
(* its fan-out engine (_execute_parallel and the smart-mode resolver pass), *)
(* the pull-mode selection, the sync command and the conflict-risk          *)
(* resolver (GitOperations.has_file_conflicts).                             *)
(*                                                                         *)
(* The external git tool is a black box: what a subprocess call returns is  *)
(* an input of the action that makes the call, drawn with \E when the call  *)
(* completes.  A repository is identified by its path; paths are the        *)
(* integers 1..NumRepos and the order of the integers is the order of the   *)
(* paths.                                                                   *)
(***************************************************************************)
EXTENDS Integers, Sequences, FiniteSets, TLC

\* ------------------------------------------------------------------ bounds
NumRepos == 3
NumFiles == 2
MaxCount == 1
MaxStatuses == 2
MaxScans == 2
MaxLines == 2
MaxDepth == 3
MaxRoots == 3

\* FleetManager.__init__: max_workers: int = 8
DefaultMaxWorkers == 8

Paths == 1..NumRepos
Files == 1..NumFiles
PoolWidths == {1, 2, DefaultMaxWorkers}
PullMode == {"smart", "safe", "force"}

VARIABLES
    args,          \* the command and its options
    max_workers,   \* FleetManager.max_workers
    roots,         \* per root: the list discover_repositories returns
    stage,         \* index of the bulk operation the command is at
    rootIdx,       \* index of the root the bulk operation is at
    phase,         \* position of the main thread inside the fleet operation
    op,            \* the operation the current fan-out applies
    pooled,        \* TRUE: ThreadPoolExecutor branch, FALSE: for-loop branch
    fan_input,     \* the repos the current fan-out was given
    queue,         \* submitted, not yet started
    running,       \* per-repository operations in flight
    results,       \* results, in completion order
    statuses,      \* local `statuses` of pull_all / push_all
    all_statuses,  \* what get_all_status returned, per root
    safe,          \* smart mode: local `safe`
    needs_check,   \* smart mode: local `needs_check`
    resolved,      \* what has_file_conflicts returned, per repository
    repos_to_run,  \* local repos_to_pull / repos_to_push
    ret,           \* what the last fleet operation returned
    fetched,       \* repositories whose stage-1 fetch has completed
    fetch_all_calls, \* per repository: how often ops.fetch_all has run
    fetch_failed,  \* repositories whose fetch by fetch_all returned success=False
    pre_needs_push, \* sync: repositories whose pre-pull status has needs_push
    history,       \* whether fetch_failed and pre_needs_push are recorded
    hfc,           \* one run of has_file_conflicts, step by step
    gs,            \* one run of GitRepository.get_status, step by step
    sm,            \* get_summary applied to per-root status lists
    disc,          \* one FleetManager, its _repositories cache and the disk
    cli,           \* one command line run, from its options to its exit
    dn,            \* one call of a display-name function and what it returned
    pr,            \* one print_status_list call of the status command
    mr             \* one bulk operation of a MultiRootFleetManager

vars == <<args, max_workers, roots, stage, rootIdx, phase, op, pooled, fan_input,
          queue, running, results, statuses, all_statuses, safe, needs_check,
          resolved, repos_to_run, ret, fetched, fetch_all_calls, fetch_failed,
          pre_needs_push, history, hfc, gs, sm, disc, cli, dn, pr, mr>>

fleetVars == <<args, max_workers, roots, stage, rootIdx, phase, op, pooled,
               fan_input, queue, running, results, statuses, all_statuses, safe,
               needs_check, resolved, repos_to_run, ret, fetched,
               fetch_all_calls, fetch_failed, pre_needs_push, history>>

\* The runs of single operations that are followed outside the fleet
units == <<hfc, gs, sm, disc, cli, dn, pr, mr>>

\* ------------------------------------------------------------ sequences
Range(s) == {s[i] : i \in 1..Len(s)}

SeqOfRange(lo, hi) == [i \in 1..(hi - lo + 1) |-> lo + i - 1]

RECURSIVE InsertByPath(_, _)
InsertByPath(sorted, r) ==
    IF sorted = <<>> THEN <<r>>
    ELSE IF r.path < Head(sorted).path THEN <<r>> \o sorted
    ELSE <<Head(sorted)>> \o InsertByPath(Tail(sorted), r)

RECURSIVE SortFrom(_, _)
SortFrom(acc, s) ==
    IF s = <<>> THEN acc ELSE SortFrom(InsertByPath(acc, Head(s)), Tail(s))

Unsorted(s) == s

\* results.sort(key=lambda r: r.path ...): a stable sort on the path
SortByPath(s) == SortFrom(<<>>, s)

\* ---------------------------------------------------------- domain model
\* RepositoryStatus(path=..., name=...) with the dataclass defaults
RepositoryStatus(path) ==
    [path |-> path, branch |-> "", remote_branch |-> "", sync_status |-> "clean",
     ahead_count |-> 0, behind_count |-> 0, staged_count |-> 0,
     unstaged_count |-> 0, untracked_count |-> 0, error_message |-> <<>>]

working_tree_status(s) ==
    IF s.staged_count > 0 \/ s.unstaged_count > 0 \/ s.untracked_count > 0
    THEN "dirty" ELSE "clean"

needs_push(s) == s.sync_status \in {"ahead", "diverged"}

needs_pull_or_error(s) == s.sync_status \in {"behind", "diverged", "error"}

needs_pull(s) == s.sync_status \in {"behind", "diverged"}

is_diverged(s) == s.sync_status = "diverged"

diverged_only(s) == is_diverged(s)

has_conflict_risk(s) ==
    IF is_diverged(s) THEN TRUE
    ELSE IF needs_pull(s) /\ working_tree_status(s) = "dirty" THEN TRUE
    ELSE FALSE

OperationResult(path, success, operation, message) ==
    [path |-> path, success |-> success, operation |-> operation, message |-> message]

\* The record get_status_porcelain returns
PorcelainInfo(branch, remote_branch, ahead, behind, staged, unstaged, untracked) ==
    [branch |-> branch, remote_branch |-> remote_branch, ahead |-> ahead,
     behind |-> behind, staged_count |-> staged, unstaged_count |-> unstaged,
     untracked_count |-> untracked]

\* What ops.fetch_all returns: (True, "") or (False, <stderr or str(e)>)
FetchOutcome(success, error) == [success |-> success, error |-> error]

NoFault == ""

swallowed(status, e) == status

\* except Exception as e: sync_status = ERROR, error_message = str(e)
on_exception(status, e) == [status EXCEPT !.sync_status = "error", !.error_message = <<e>>]

\* get_status testing for a detached HEAD before the upstream
get_status_detached_first(path, fetch_first, fetch, fault, info, remotes) ==
    IF fetch_first /\ ~fetch.success
    THEN [RepositoryStatus(path) EXCEPT !.sync_status = "error",
                                        !.error_message = <<"Fetch failed: ", fetch.error>>]
    ELSE IF fault # NoFault
    THEN on_exception(RepositoryStatus(path), fault)
    ELSE [RepositoryStatus(path) EXCEPT
            !.branch = info.branch,
            !.remote_branch = info.remote_branch,
            !.ahead_count = info.ahead,
            !.behind_count = info.behind,
            !.staged_count = info.staged_count,
            !.unstaged_count = info.unstaged_count,
            !.untracked_count = info.untracked_count,
            !.sync_status =
                IF info.branch = "(detached)" THEN "detached"
                ELSE IF info.remote_branch # ""
                THEN IF info.ahead > 0 /\ info.behind > 0 THEN "diverged"
                     ELSE IF info.ahead > 0 THEN "ahead"
                     ELSE IF info.behind > 0 THEN "behind"
                     ELSE "clean"
                ELSE IF remotes THEN "no_upstream"
                ELSE "no_remote"]

\* GitRepository.get_status.  fetch: what ops.fetch_all returned; fault: the
\* text of an exception get_status_porcelain raised inside the try block, or
\* NoFault; info: the record get_status_porcelain returned; remotes: what
\* ops.has_remotes returned.  error_message is kept as the parts of the
\* formatted string.
get_status(path, fetch_first, fetch, fault, info, remotes) ==
    LET status == RepositoryStatus(path) IN
    IF fetch_first /\ ~fetch.success
    THEN [status EXCEPT !.sync_status = "error",
                        !.error_message = <<"Fetch failed: ", fetch.error>>]
    ELSE IF fault # NoFault
    THEN on_exception(status, fault)
    ELSE
      LET probed == [status EXCEPT
                       !.branch = info.branch,
                       !.remote_branch = info.remote_branch,
                       !.ahead_count = info.ahead,
                       !.behind_count = info.behind,
                       !.staged_count = info.staged_count,
                       !.unstaged_count = info.unstaged_count,
                       !.untracked_count = info.untracked_count]
          sync == IF probed.remote_branch # ""
                  THEN IF probed.ahead_count > 0 /\ probed.behind_count > 0 THEN "diverged"
                       ELSE IF probed.ahead_count > 0 THEN "ahead"
                       ELSE IF probed.behind_count > 0 THEN "behind"
                       ELSE "clean"
                  ELSE IF probed.branch = "(detached)" THEN "detached"
                  ELSE IF remotes THEN "no_upstream"
                  ELSE "no_remote"
      IN [probed EXCEPT !.sync_status = sync]

\* ------------------------------------------------- conflict-risk resolver
\* One subprocess outcome of a file-listing git call: exit code and the file
\* names on stdout.
GitFileListings == [rc : {0, 1}, files : SUBSET Files]

\* get_merge_base: the commit id on exit 0, None otherwise
NoMergeBase == "None"
get_merge_base(rc) == IF rc = 0 THEN "M" ELSE NoMergeBase

\* get_changed_files_between: the names on exit 0 with output, else the empty set
get_changed_files_between(run) ==
    IF run.rc = 0 /\ run.files # {} THEN run.files ELSE {}

\* get_dirty_files: git diff --name-only HEAD, then git ls-files --others
get_dirty_files(diff_head, untracked) ==
    (IF diff_head.rc = 0 /\ diff_head.files # {} THEN diff_head.files ELSE {})
      \cup (IF untracked.rc = 0 /\ untracked.files # {} THEN untracked.files ELSE {})

file_overlap_ignoring_dirty(remote_files, local_files, dirty_files) ==
    (local_files \cap remote_files) # {}

\* local_files |= dirty; return bool(local_files & remote_files)
file_overlap(remote_files, local_files, dirty_files) ==
    ((local_files \cup dirty_files) \cap remote_files) # {}

\* What the git calls of one has_file_conflicts run return
ResolverInputs ==
    [merge_base_rc : {0, 1}, remote : GitFileListings, local : GitFileListings,
     diff_head : GitFileListings, untracked : GitFileListings]

\* GitOperations.has_file_conflicts as one function of what git returns
has_file_conflicts(g) ==
    IF get_merge_base(g.merge_base_rc) = NoMergeBase THEN TRUE
    ELSE file_overlap(get_changed_files_between(g.remote),
                      get_changed_files_between(g.local),
                      get_dirty_files(g.diff_head, g.untracked))

\* ------------------------------------------------ commands and layouts
Cfg(cmd, sequential, dry_run, mode, only, fetch_first, with_statuses) ==
    [cmd |-> cmd, sequential |-> sequential, dry_run |-> dry_run, mode |-> mode,
     only |-> only, fetch_first |-> fetch_first, with_statuses |-> with_statuses]

\* The calls a caller can make.  only: only_behind / only_ahead (not --all);
\* fetch_first: status without --no-fetch; with_statuses: the caller computes
\* get_all_status(fetch_first=False) and hands it over as `statuses`, as sync
\* does.  sync pulls in the default mode with only_behind=True.
Commands ==
    {Cfg("status", s, FALSE, "smart", TRUE, ff, FALSE) : s \in BOOLEAN, ff \in BOOLEAN}
    \cup {Cfg("fetch", s, FALSE, "smart", TRUE, FALSE, FALSE) : s \in BOOLEAN}
    \cup {Cfg("pull", c[1], c[2], c[3], c[4], c[5], c[5]) :
            c \in BOOLEAN \X BOOLEAN \X PullMode \X BOOLEAN \X BOOLEAN}
    \cup {Cfg("push", c[1], c[2], "smart", c[3], c[4], c[4]) :
            c \in BOOLEAN \X BOOLEAN \X BOOLEAN \X BOOLEAN}
    \cup {Cfg("sync", c[1], c[2], "smart", TRUE, FALSE, FALSE) :
            c \in BOOLEAN \X BOOLEAN}

\* The bulk operations a command performs, in order
Script(a) ==
    CASE a.cmd = "status" -> <<"status">>
      [] a.cmd = "fetch"  -> <<"fetch">>
      [] a.cmd = "pull"   -> IF a.with_statuses THEN <<"status", "pull">> ELSE <<"pull">>
      [] a.cmd = "push"   -> IF a.with_statuses THEN <<"status", "push">> ELSE <<"push">>
      [] a.cmd = "sync"   -> <<"fetch", "status", "pull", "status", "push", "status">>

\* One root holding every repository, or two roots: the last repository
\* under a root of its own.
Layouts ==
    {<<SeqOfRange(1, NumRepos)>>,
     <<SeqOfRange(1, NumRepos - 1), SeqOfRange(NumRepos, NumRepos)>>}

\* What get_status_porcelain reports in the fleet model: clean, ahead,
\* behind with a clean tree, behind with a dirty tree, diverged.
ProbeSamples ==
    {PorcelainInfo("main", "origin/main", 0, 0, 0, 0, 0),
     PorcelainInfo("main", "origin/main", 1, 0, 0, 0, 0),
     PorcelainInfo("main", "origin/main", 0, 1, 0, 0, 0),
     PorcelainInfo("main", "origin/main", 0, 1, 0, 1, 0),
     PorcelainInfo("main", "origin/main", 1, 1, 0, 0, 0)}

\* What ops.fetch_all returns in the fleet model
FetchSamples == {FetchOutcome(TRUE, ""), FetchOutcome(FALSE, "timeout")}

\* What git returns to has_file_conflicts in the fleet model: no merge-base;
\* disjoint file sets; overlapping committed files; overlap with a dirty file.
Listing(rc, files) == [rc |-> rc, files |-> files]

ResolverSamples ==
    {[merge_base_rc |-> 1, remote |-> Listing(0, {1}), local |-> Listing(0, {2}),
      diff_head |-> Listing(0, {}), untracked |-> Listing(0, {})],
     [merge_base_rc |-> 0, remote |-> Listing(0, {1}), local |-> Listing(0, {2}),
      diff_head |-> Listing(0, {}), untracked |-> Listing(0, {})],
     [merge_base_rc |-> 0, remote |-> Listing(0, {1}), local |-> Listing(0, {1}),
      diff_head |-> Listing(0, {}), untracked |-> Listing(0, {})],
     [merge_base_rc |-> 0, remote |-> Listing(0, {1}), local |-> Listing(0, {}),
      diff_head |-> Listing(0, {}), untracked |-> Listing(0, {1})]}

NoStatuses == <<>>      \* statuses is None (every root of the model holds a repository)
NoRet == [op |-> "none", input |-> <<>>, collected |-> <<>>, out |-> <<>>]
Unresolved == [p \in Paths |-> "none"]
HfcIdle == [pc |-> "idle"]
GsIdle == [pc |-> "idle"]
SmIdle == [pc |-> "idle"]
DiscIdle == [pc |-> "idle"]
CliIdle == [pc |-> "idle"]
DnIdle == [pc |-> "idle"]
PrIdle == [pc |-> "idle"]
MrIdle == [pc |-> "idle"]

StageKind == Script(args)[stage]

\* FleetManager.discover_repositories of the current root: the memoized list,
\* sorted by path
discover_repositories == roots[rootIdx]

\* statuses_by_root.get(root): the statuses stored under the root's key
statuses_by_root(root) ==
    IF \E i \in 1..Len(all_statuses) : all_statuses[i].root = root
    THEN all_statuses[CHOOSE i \in 1..Len(all_statuses) :
                        /\ all_statuses[i].root = root
                        /\ \A j \in (i + 1)..Len(all_statuses) : all_statuses[j].root # root].statuses
    ELSE NoStatuses

\* The entries of all_statuses a later root of the same bulk call still reads
RestOfStatuses(root) == SelectSeq(all_statuses, LAMBDA e : e.root # root)

FleetStart ==
    /\ args \in Commands
    /\ max_workers \in PoolWidths
    /\ (args.sequential => max_workers = DefaultMaxWorkers)
    /\ roots \in Layouts
    /\ stage = 1
    /\ rootIdx = 1
    /\ phase = "call"
    /\ op = "none"
    /\ pooled = FALSE
    /\ fan_input = <<>>
    /\ queue = <<>>
    /\ running = {}
    /\ results = <<>>
    /\ statuses = NoStatuses
    /\ all_statuses = <<>>
    /\ safe = <<>>
    /\ needs_check = <<>>
    /\ resolved = Unresolved
    /\ repos_to_run = <<>>
    /\ ret = NoRet
    /\ fetched = {}
    /\ fetch_all_calls = [p \in Paths |-> 0]
    /\ fetch_failed = {}
    /\ pre_needs_push = {}

\* What the fleet operations compute, without the record of past stages
FleetInit == FleetStart /\ history = FALSE

Init ==
    /\ FleetInit
    /\ mr = MrIdle
    /\ pr = PrIdle
    /\ hfc = HfcIdle
    /\ gs = GsIdle
    /\ sm = SmIdle
    /\ disc = DiscIdle
    /\ cli = CliIdle
    /\ dn = DnIdle

\* ---------------------------------------------------------- the engine
config == <<args, max_workers, roots, history>>
locals == <<statuses, safe, needs_check, resolved, repos_to_run>>

Min(a, b) == IF a < b THEN a ELSE b

KeepUnlessDiverged(s) == needs_pull(s) /\ ~is_diverged(s)

\* FORCE: if status.needs_pull
KeepForce(s) == needs_pull(s)

\* SAFE: if status.needs_pull and not status.has_conflict_risk
KeepSafe(s) == needs_pull(s) /\ ~has_conflict_risk(s)

\* SMART: needs_pull and not has_conflict_risk: safe.append(repo)
KeepSmartSafe(s) == needs_pull(s) /\ ~has_conflict_risk(s)

KeepEveryPull(s) == needs_pull(s)

\* SMART: needs_pull and has_conflict_risk: needs_check.append(repo)
KeepSmartCheck(s) == needs_pull(s) /\ has_conflict_risk(s)

ahead_only(s) == s.sync_status = "ahead"

\* push_all: if status.needs_push
KeepPush(s) == needs_push(s)

\* The condition of the list comprehension that builds `which`
Keep(which, s) ==
    CASE which = "force" -> KeepForce(s)
      [] which = "safe" -> KeepSafe(s)
      [] which = "smart_safe" -> KeepSmartSafe(s)
      [] which = "needs_check" -> KeepSmartCheck(s)
      [] which = "push" -> KeepPush(s)

\* The paths of the statuses that satisfy <condition>
PathsWhere(sts, which) == {sts[i].path : i \in {j \in 1..Len(sts) : Keep(which, sts[j])}}

\* [repo for repo, status in zip(repos, sts) if <condition>(status)]
ZipSelect(repos, sts, which) ==
    LET n == Min(Len(repos), Len(sts))
        idx == SelectSeq(SeqOfRange(1, n), LAMBDA i : Keep(which, sts[i]))
    IN [k \in 1..Len(idx) |-> repos[idx[k]]]

\* sequential or len(repos) <= 1: the for loop; otherwise the thread pool
UsesPool(repos) == ~(args.sequential \/ Len(repos) <= 1)

\* Entry of _execute_parallel and of the resolver pass: every repo is submitted
FanOut(operation, repos, ph) ==
    /\ op' = operation
    /\ fan_input' = repos
    /\ queue' = repos
    /\ pooled' = UsesPool(repos)
    /\ results' = <<>>
    /\ phase' = ph

NoFanOut == UNCHANGED <<op, fan_input, queue, pooled, results>>

Worker(path) == [path |-> path, op |-> op, stage |-> stage, root |-> rootIdx]

\* The workers of the current fan-out
OwnWorkers == {x \in running : x.op = op /\ x.stage = stage /\ x.root = rootIdx}

Unbounded == NumRepos + DefaultMaxWorkers

NoIdleThread == 0 * max_workers

\* ThreadPoolExecutor(max_workers=self.max_workers)
PoolLimit == max_workers

ReturnsWithoutJoin == queue = <<>>

\* The for loop has ended, or as_completed has yielded every future and the
\* `with` block has joined the pool
AllDone == queue = <<>> /\ running = {}

DropFailed(collected, r) ==
    IF "success" \in DOMAIN r /\ ~r.success THEN collected ELSE Append(collected, r)

\* results.append(operation(repo)) / results.append(future.result())
CollectResult(collected, r) == Append(collected, r)

\* The fleet operation of the current root has returned: the next root of the
\* bulk call, else the next bulk call of the command, else the command ends
Advance ==
    IF rootIdx < Len(roots)
    THEN /\ rootIdx' = rootIdx + 1
         /\ phase' = "call"
         /\ UNCHANGED stage
    ELSE IF stage < Len(Script(args))
    THEN /\ rootIdx' = 1
         /\ stage' = stage + 1
         /\ phase' = "call"
    ELSE /\ phase' = "done"
         /\ UNCHANGED <<stage, rootIdx>>

\* for repo in repos: results.append(operation(repo))
SequentialCall ==
    /\ phase \in {"status", "resolve", "exec"}
    /\ ~pooled
    /\ queue # <<>>
    /\ OwnWorkers = {}
    /\ running' = running \cup {Worker(Head(queue))}
    /\ queue' = Tail(queue)
    /\ UNCHANGED <<config, stage, rootIdx, phase, op, pooled, fan_input, results,
                   locals, all_statuses, ret, fetched, fetch_all_calls, fetch_failed,
                   pre_needs_push, units>>

\* A pool thread takes the next submitted call
PoolStart ==
    /\ phase \in {"status", "resolve", "exec"}
    /\ pooled
    /\ queue # <<>>
    /\ Cardinality(OwnWorkers) < PoolLimit
    /\ running' = running \cup {Worker(Head(queue))}
    /\ queue' = Tail(queue)
    /\ UNCHANGED <<config, stage, rootIdx, phase, op, pooled, fan_input, results,
                   locals, all_statuses, ret, fetched, fetch_all_calls, fetch_failed,
                   pre_needs_push, units>>

AppendAlways(approved, path, conflict) == Append(approved, path)

\* if not repo.has_file_conflicts(): safe.append(repo)
SafeAfterCheck(approved, path, conflict) ==
    IF conflict THEN approved ELSE Append(approved, path)

\* GitRepository.fetch returns
CompleteFetch(x) ==
    /\ x \in running
    /\ x.op = "fetch"
    /\ \E ok \in BOOLEAN :
         /\ results' = CollectResult(results, OperationResult(x.path, ok, "fetch",
                            IF ok THEN "Fetched successfully" ELSE ""))
         /\ fetch_failed' = IF history /\ ~ok THEN fetch_failed \cup {x.path}
                                                ELSE fetch_failed
    /\ running' = running \ {x}
    /\ fetched' = fetched \cup {x.path}
    /\ fetch_all_calls' = [fetch_all_calls EXCEPT ![x.path] = @ + 1]
    /\ UNCHANGED <<config, stage, rootIdx, phase, op, pooled, fan_input, queue,
                   locals, all_statuses, ret, pre_needs_push, units>>

\* GitRepository.get_status returns
CompleteStatus(x) ==
    /\ x \in running
    /\ x.op \in {"status", "status_fetch"}
    /\ \E fetch \in (IF x.op = "status_fetch" THEN FetchSamples
                                               ELSE {FetchOutcome(TRUE, "")}),
          info \in ProbeSamples :
         results' = CollectResult(results,
                        get_status(x.path, x.op = "status_fetch", fetch, NoFault, info, TRUE))
    /\ running' = running \ {x}
    /\ fetch_all_calls' = IF x.op = "status_fetch"
                          THEN [fetch_all_calls EXCEPT ![x.path] = @ + 1]
                          ELSE fetch_all_calls
    /\ UNCHANGED <<config, stage, rootIdx, phase, op, pooled, fan_input, queue,
                   locals, all_statuses, ret, fetched, fetch_failed,
                   pre_needs_push, units>>

\* GitRepository.pull returns
CompletePull(x) ==
    /\ x \in running
    /\ x.op = "pull"
    /\ \E ok \in BOOLEAN :
         results' = CollectResult(results, OperationResult(x.path, ok, "pull",
                        IF ok THEN "Already up to date." ELSE ""))
    /\ running' = running \ {x}
    /\ UNCHANGED <<config, stage, rootIdx, phase, op, pooled, fan_input, queue,
                   locals, all_statuses, ret, fetched, fetch_all_calls, fetch_failed,
                   pre_needs_push, units>>

\* GitRepository.push returns
CompletePush(x) ==
    /\ x \in running
    /\ x.op = "push"
    /\ \E ok \in BOOLEAN :
         results' = CollectResult(results, OperationResult(x.path, ok, "push",
                        IF ok THEN "Everything up-to-date" ELSE ""))
    /\ running' = running \ {x}
    /\ UNCHANGED <<config, stage, rootIdx, phase, op, pooled, fan_input, queue,
                   locals, all_statuses, ret, fetched, fetch_all_calls, fetch_failed,
                   pre_needs_push, units>>

\* repo.has_file_conflicts returns: if not conflict: safe.append(repo)
CompleteResolver(x) ==
    /\ x \in running
    /\ x.op = "has_file_conflicts"
    /\ \E g \in ResolverSamples :
         LET conflict == has_file_conflicts(g) IN
         /\ safe' = SafeAfterCheck(safe, x.path, conflict)
         /\ resolved' = [resolved EXCEPT ![x.path] = IF conflict THEN "conflict" ELSE "clear"]
    /\ running' = running \ {x}
    /\ UNCHANGED <<config, stage, rootIdx, phase, op, pooled, fan_input, queue,
                   results, statuses, needs_check, repos_to_run, all_statuses, ret,
                   fetched, fetch_all_calls, fetch_failed,
                   pre_needs_push, units>>

\* _execute_parallel sorts what it collected and returns it: to pull_all or
\* push_all (their own get_all_status call), or as the fleet operation's result
ExecuteReturn ==
    /\ phase \in {"status", "exec"}
    /\ AllDone
    /\ LET sorted == SortByPath(results) IN
       /\ ret' = [op |-> op, input |-> fan_input, collected |-> results, out |-> sorted]
       /\ IF phase = "status"
          THEN /\ statuses' = sorted
               /\ phase' = "select"
               /\ UNCHANGED <<stage, rootIdx, all_statuses>>
          ELSE /\ all_statuses' = IF StageKind = "status"
                                  THEN Append(all_statuses,
                                              [root |-> rootIdx, statuses |-> sorted,
                                               stage |-> stage])
                                  ELSE all_statuses
               /\ Advance
               /\ UNCHANGED statuses
    /\ op' = "none"
    /\ fan_input' = <<>>
    /\ results' = <<>>
    /\ UNCHANGED <<config, pooled, queue, running, safe, needs_check, resolved,
                   repos_to_run, fetched, fetch_all_calls, fetch_failed,
                   pre_needs_push, units>>

\* ------------------------------------------------------ fleet operations
ClearLocals ==
    /\ statuses' = NoStatuses
    /\ safe' = <<>>
    /\ needs_check' = <<>>
    /\ resolved' = Unresolved
    /\ repos_to_run' = <<>>

\* FleetManager.fetch_all (per root of MultiRootFleetManager.fetch_all)
FetchAll ==
    /\ phase = "call"
    /\ StageKind = "fetch"
    /\ FanOut("fetch", discover_repositories, "exec")
    /\ ret' = NoRet
    /\ UNCHANGED <<config, stage, rootIdx, running, locals, all_statuses, fetched, fetch_all_calls, fetch_failed,
                   pre_needs_push, units>>

\* FleetManager.get_all_status (per root of MultiRootFleetManager.get_all_status,
\* which starts a new list)
GetAllStatus ==
    /\ phase = "call"
    /\ StageKind = "status"
    /\ FanOut(IF args.fetch_first THEN "status_fetch" ELSE "status",
              discover_repositories, "exec")
    /\ all_statuses' = IF rootIdx = 1 THEN <<>> ELSE all_statuses
    /\ ret' = NoRet
    /\ UNCHANGED <<config, stage, rootIdx, running, locals, fetched, fetch_all_calls, fetch_failed,
                   pre_needs_push, units>>

StatusesDropped == NoStatuses

\* The `statuses` argument: what the preceding get_all_status stored for this root
GivenStatuses == IF stage > 1 THEN statuses_by_root(rootIdx) ELSE NoStatuses

\* pull_all / push_all up to the decision to compute the statuses:
\* not only_behind: everything is selected; statuses is None: get_all_status(
\* fetch_first=True); else the statuses handed in are used
BeginSelection ==
    /\ all_statuses' = RestOfStatuses(rootIdx)
    /\ ret' = NoRet
    /\ IF ~args.only
       THEN /\ repos_to_run' = discover_repositories
            /\ statuses' = GivenStatuses
            /\ phase' = "run"
            /\ NoFanOut
            /\ UNCHANGED <<safe, needs_check, resolved>>
       ELSE IF GivenStatuses = NoStatuses
       THEN /\ FanOut("status_fetch", discover_repositories, "status")
            /\ UNCHANGED locals
       ELSE /\ statuses' = GivenStatuses
            /\ phase' = "select"
            /\ NoFanOut
            /\ UNCHANGED <<safe, needs_check, resolved, repos_to_run>>

PullAllBegin ==
    /\ phase = "call"
    /\ StageKind = "pull"
    /\ BeginSelection
    /\ pre_needs_push' = IF history /\ args.cmd = "sync"
                         THEN pre_needs_push \cup PathsWhere(GivenStatuses, "push")
                         ELSE pre_needs_push
    /\ UNCHANGED <<config, stage, rootIdx, running, fetched, fetch_all_calls, fetch_failed,
                   units>>

\* pull_all, only_behind: the selection by mode; smart mode starts the
\* resolver pass over needs_check when it is not empty
PullAllSelect ==
    /\ phase = "select"
    /\ StageKind = "pull"
    /\ ret' = NoRet
    /\ LET repos == discover_repositories IN
       CASE args.mode = "force" ->
              /\ repos_to_run' = ZipSelect(repos, statuses, "force")
              /\ phase' = "run"
              /\ NoFanOut
              /\ UNCHANGED <<safe, needs_check>>
         [] args.mode = "safe" ->
              /\ repos_to_run' = ZipSelect(repos, statuses, "safe")
              /\ phase' = "run"
              /\ NoFanOut
              /\ UNCHANGED <<safe, needs_check>>
         [] args.mode = "smart" ->
              LET s == ZipSelect(repos, statuses, "smart_safe")
                  c == ZipSelect(repos, statuses, "needs_check")
              IN /\ safe' = s
                 /\ needs_check' = c
                 /\ IF c = <<>>
                    THEN /\ repos_to_run' = s
                         /\ phase' = "run"
                         /\ NoFanOut
                    ELSE /\ FanOut("has_file_conflicts", c, "resolve")
                         /\ UNCHANGED repos_to_run
    /\ UNCHANGED <<config, stage, rootIdx, running, statuses, resolved, all_statuses,
                   fetched, fetch_all_calls, fetch_failed,
                   pre_needs_push, units>>

\* The resolver pass has ended: repos_to_pull = safe
ResolverJoin ==
    /\ phase = "resolve"
    /\ AllDone
    /\ repos_to_run' = safe
    /\ phase' = "run"
    /\ op' = "none"
    /\ fan_input' = <<>>
    /\ UNCHANGED <<config, stage, rootIdx, pooled, queue, running, results, statuses,
                   safe, needs_check, resolved, all_statuses, ret, fetched, fetch_all_calls, fetch_failed,
                   pre_needs_push, units>>

DryRunFails(repos, operation, message) ==
    [i \in 1..Len(repos) |-> OperationResult(repos[i], FALSE, operation, message)]

\* [OperationResult(path=repo.path, success=True, operation=..., message=...)
\*  for repo in repos_to_pull]
DryRunResults(repos, operation, message) ==
    [i \in 1..Len(repos) |-> OperationResult(repos[i], TRUE, operation, message)]

\* The tail of pull_all and push_all: the synthetic results of a dry run, or
\* _execute_parallel over the selected repositories
RunSelected(operation, message) ==
    IF args.dry_run
    THEN /\ LET dry == DryRunResults(repos_to_run, operation, message) IN
              ret' = [op |-> operation, input |-> repos_to_run, collected |-> dry, out |-> dry]
         /\ Advance
         /\ NoFanOut
    ELSE /\ FanOut(operation, repos_to_run, "exec")
         /\ ret' = NoRet
         /\ UNCHANGED <<stage, rootIdx>>

PullAllRun ==
    /\ phase = "run"
    /\ StageKind = "pull"
    /\ RunSelected("pull", "Would pull (dry-run)")
    /\ ClearLocals
    /\ UNCHANGED <<config, running, all_statuses, fetched, fetch_all_calls, fetch_failed,
                   pre_needs_push, units>>

PushAllBegin ==
    /\ phase = "call"
    /\ StageKind = "push"
    /\ BeginSelection
    /\ UNCHANGED <<config, stage, rootIdx, running, fetched, fetch_all_calls, fetch_failed,
                   pre_needs_push, units>>

PushAllSelect ==
    /\ phase = "select"
    /\ StageKind = "push"
    /\ repos_to_run' = ZipSelect(discover_repositories, statuses, "push")
    /\ phase' = "run"
    /\ ret' = NoRet
    /\ NoFanOut
    /\ UNCHANGED <<config, stage, rootIdx, running, statuses, safe, needs_check,
                   resolved, all_statuses, fetched, fetch_all_calls, fetch_failed,
                   pre_needs_push, units>>

PushAllRun ==
    /\ phase = "run"
    /\ StageKind = "push"
    /\ RunSelected("push", "Would push (dry-run)")
    /\ ClearLocals
    /\ UNCHANGED <<config, running, all_statuses, fetched, fetch_all_calls, fetch_failed,
                   pre_needs_push, units>>

Next ==
    \/ FetchAll
    \/ GetAllStatus
    \/ PullAllBegin
    \/ PullAllSelect
    \/ ResolverJoin
    \/ PullAllRun
    \/ PushAllBegin
    \/ PushAllSelect
    \/ PushAllRun
    \/ SequentialCall
    \/ PoolStart
    \/ \E x \in running : CompleteFetch(x)
    \/ \E x \in running : CompleteStatus(x)
    \/ \E x \in running : CompletePull(x)
    \/ \E x \in running : CompletePush(x)
    \/ \E x \in running : CompleteResolver(x)
    \/ ExecuteReturn

Spec == Init /\ [][Next]_vars

\* The calling thread: the fleet operations, the sequential loop and the return
\* of _execute_parallel
MainThread ==
    \/ FetchAll
    \/ GetAllStatus
    \/ PullAllBegin
    \/ PullAllSelect
    \/ ResolverJoin
    \/ PullAllRun
    \/ PushAllBegin
    \/ PushAllSelect
    \/ PushAllRun
    \/ SequentialCall
    \/ ExecuteReturn

\* A per-repository operation that has started returns
OperationReturns ==
    \/ \E x \in running : CompleteFetch(x)
    \/ \E x \in running : CompleteStatus(x)
    \/ \E x \in running : CompletePull(x)
    \/ \E x \in running : CompletePush(x)
    \/ \E x \in running : CompleteResolver(x)

\* The calling thread keeps running, an idle pool thread takes the next queued
\* call, and every per-repository operation terminates
Fairness ==
    /\ WF_vars(MainThread)
    /\ WF_vars(PoolStart)
    /\ WF_vars(OperationReturns)

SpecFair == Spec /\ Fairness

\* The sync command, with the record of what its earlier stages saw
InitSync ==
    /\ FleetStart
    /\ args.cmd = "sync"
    /\ history = TRUE
    /\ pr = PrIdle
    /\ mr = MrIdle
    /\ hfc = HfcIdle
    /\ gs = GsIdle
    /\ sm = SmIdle
    /\ disc = DiscIdle
    /\ cli = CliIdle
    /\ dn = DnIdle

SpecSync == InitSync /\ [][Next]_vars

\* ------------------------------------- has_file_conflicts, step by step
\* The fleet is at rest while one resolver run is followed through its calls
FleetIdle ==
    /\ args = Cfg("pull", TRUE, FALSE, "smart", TRUE, FALSE, FALSE)
    /\ max_workers = DefaultMaxWorkers
    /\ roots = <<SeqOfRange(1, NumRepos)>>
    /\ stage = 1
    /\ rootIdx = 1
    /\ phase = "done"
    /\ op = "none"
    /\ pooled = FALSE
    /\ fan_input = <<>>
    /\ queue = <<>>
    /\ running = {}
    /\ results = <<>>
    /\ statuses = NoStatuses
    /\ all_statuses = <<>>
    /\ safe = <<>>
    /\ needs_check = <<>>
    /\ resolved = Unresolved
    /\ repos_to_run = <<>>
    /\ ret = NoRet
    /\ fetched = {}
    /\ fetch_all_calls = [p \in Paths |-> 0]
    /\ fetch_failed = {}
    /\ pre_needs_push = {}
    /\ history = FALSE

InitResolver ==
    /\ FleetIdle
    /\ mr = MrIdle
    /\ pr = PrIdle
    /\ dn = DnIdle
    /\ cli = CliIdle
    /\ \E g \in ResolverInputs :
         hfc = [pc |-> "merge_base", git |-> g, merge_base |-> NoMergeBase,
                remote_files |-> {}, local_files |-> {}, result |-> FALSE]
    /\ gs = GsIdle
    /\ sm = SmIdle
    /\ disc = DiscIdle

\* merge_base = self.get_merge_base(); if merge_base is None: return True
HfcMergeBase ==
    /\ hfc.pc = "merge_base"
    /\ LET m == get_merge_base(hfc.git.merge_base_rc) IN
       hfc' = IF m = NoMergeBase
              THEN [hfc EXCEPT !.pc = "done", !.result = TRUE]
              ELSE [hfc EXCEPT !.pc = "remote", !.merge_base = m]
    /\ UNCHANGED <<fleetVars, gs, sm, disc, cli, dn, pr, mr>>

\* remote_files = self.get_changed_files_between(merge_base, "@{u}")
HfcRemoteFiles ==
    /\ hfc.pc = "remote"
    /\ hfc' = [hfc EXCEPT !.pc = "local",
                          !.remote_files = get_changed_files_between(hfc.git.remote)]
    /\ UNCHANGED <<fleetVars, gs, sm, disc, cli, dn, pr, mr>>

\* local_files = self.get_changed_files_between(merge_base, "HEAD")
HfcLocalFiles ==
    /\ hfc.pc = "local"
    /\ hfc' = [hfc EXCEPT !.pc = "dirty",
                          !.local_files = get_changed_files_between(hfc.git.local)]
    /\ UNCHANGED <<fleetVars, gs, sm, disc, cli, dn, pr, mr>>

\* local_files |= self.get_dirty_files(); return bool(local_files & remote_files)
HfcReturn ==
    /\ hfc.pc = "dirty"
    /\ LET dirty == get_dirty_files(hfc.git.diff_head, hfc.git.untracked) IN
       hfc' = [hfc EXCEPT !.pc = "done",
                          !.local_files = hfc.local_files \cup dirty,
                          !.result = file_overlap(hfc.remote_files, hfc.local_files, dirty)]
    /\ UNCHANGED <<fleetVars, gs, sm, disc, cli, dn, pr, mr>>

NextResolver ==
    \/ HfcMergeBase
    \/ HfcRemoteFiles
    \/ HfcLocalFiles
    \/ HfcReturn

SpecResolver == InitResolver /\ [][NextResolver]_vars

\* --------------------------------------------- get_status, step by step
\* Every record get_status_porcelain can hand to get_status, counts up to MaxCount
ProbeRecords ==
    {PorcelainInfo(b, r, c[1], c[2], c[3], c[4], c[5]) :
        b \in {"main", "(detached)"}, r \in {"", "origin/main"},
        c \in (0..MaxCount) \X (0..MaxCount) \X (0..MaxCount) \X (0..MaxCount)
                \X (0..MaxCount)}

\* What surrounds one get_status call: the fetch_first argument, what
\* ops.fetch_all returns, the exception get_status_porcelain and
\* get_last_commit_date raise (or NoFault), the probe record, ops.has_remotes.
GsInputs ==
    [fetch_first : BOOLEAN, fetch : FetchSamples, probe_fault : {NoFault, "probe failed"},
     commit_fault : {NoFault, "log failed"}, info : ProbeRecords, remotes : BOOLEAN]

InitStatus ==
    /\ FleetIdle
    /\ mr = MrIdle
    /\ pr = PrIdle
    /\ dn = DnIdle
    /\ cli = CliIdle
    /\ hfc = HfcIdle
    /\ sm = SmIdle
    /\ disc = DiscIdle
    /\ \E i \in GsInputs : gs = [pc |-> "fetch", in |-> i, status |-> RepositoryStatus(1)]

\* if fetch_first: success, error = self.ops.fetch_all(); if not success: return
GsFetch ==
    /\ gs.pc = "fetch"
    /\ gs' = IF gs.in.fetch_first /\ ~gs.in.fetch.success
             THEN [gs EXCEPT !.pc = "done",
                     !.status = get_status(1, TRUE, gs.in.fetch, NoFault, gs.in.info,
                                           gs.in.remotes)]
             ELSE [gs EXCEPT !.pc = "probe"]
    /\ UNCHANGED <<fleetVars, hfc, sm, disc, cli, dn, pr, mr>>

\* info = self.ops.get_status_porcelain() up to the classification
GsProbe ==
    /\ gs.pc = "probe"
    /\ gs' = [gs EXCEPT
                !.pc = IF gs.in.probe_fault # NoFault THEN "done" ELSE "last_commit",
                !.status = get_status(1, FALSE, gs.in.fetch, gs.in.probe_fault,
                                      gs.in.info, gs.in.remotes)]
    /\ UNCHANGED <<fleetVars, hfc, sm, disc, cli, dn, pr, mr>>

\* status.last_commit_date = self.ops.get_last_commit_date(); return status
GsLastCommit ==
    /\ gs.pc = "last_commit"
    /\ gs' = [gs EXCEPT
                !.pc = "done",
                !.status = IF gs.in.commit_fault # NoFault
                           THEN on_exception(gs.status, gs.in.commit_fault)
                           ELSE gs.status]
    /\ UNCHANGED <<fleetVars, hfc, sm, disc, cli, dn, pr, mr>>

NextStatus ==
    \/ GsFetch
    \/ GsProbe
    \/ GsLastCommit

SpecStatus == InitStatus /\ [][NextStatus]_vars

\* ------------------------------------------------------------ get_summary
FleetSummary(total) ==
    [total |-> total, clean |-> 0, need_push |-> 0, need_pull |-> 0, diverged |-> 0,
     dirty |-> 0, conflict_risk |-> 0, errors |-> 0]

Bump(b) == IF b THEN 1 ELSE 0

summary_step_any_tree(summary, status) ==
    [total |-> summary.total,
     errors |-> summary.errors + Bump(status.sync_status = "error"),
     clean |-> summary.clean + Bump(status.sync_status = "clean"),
     need_push |-> summary.need_push + Bump(needs_push(status)),
     need_pull |-> summary.need_pull + Bump(needs_pull(status)),
     diverged |-> summary.diverged + Bump(is_diverged(status)),
     dirty |-> summary.dirty + Bump(working_tree_status(status) = "dirty"),
     conflict_risk |-> summary.conflict_risk + Bump(has_conflict_risk(status))]

\* One iteration of the loop of FleetManager.get_summary
summary_step(summary, status) ==
    [total |-> summary.total,
     errors |-> summary.errors + Bump(status.sync_status = "error"),
     clean |-> summary.clean
                + Bump(/\ status.sync_status # "error"
                       /\ status.sync_status = "clean"
                       /\ working_tree_status(status) = "clean"),
     need_push |-> summary.need_push + Bump(needs_push(status)),
     need_pull |-> summary.need_pull + Bump(needs_pull(status)),
     diverged |-> summary.diverged + Bump(is_diverged(status)),
     dirty |-> summary.dirty + Bump(working_tree_status(status) = "dirty"),
     conflict_risk |-> summary.conflict_risk + Bump(has_conflict_risk(status))]

RECURSIVE summary_loop(_, _)
summary_loop(summary, sts) ==
    IF sts = <<>> THEN summary
    ELSE summary_loop(summary_step(summary, Head(sts)), Tail(sts))

\* FleetManager.get_summary
get_summary(sts) == summary_loop(FleetSummary(Len(sts)), sts)

\* for _, statuses in all_statuses: all_status_list.extend(statuses)
RECURSIVE extend_all(_, _)
extend_all(all_status_list, lists) ==
    IF lists = <<>> THEN all_status_list
    ELSE extend_all(all_status_list \o Head(lists), Tail(lists))

multi_root_summary_step_no_risk(summary, status) ==
    [summary_step(summary, status) EXCEPT !.conflict_risk = summary.conflict_risk]

\* One iteration of the loop of MultiRootFleetManager.get_summary
multi_root_summary_step(summary, status) ==
    [total |-> summary.total,
     errors |-> summary.errors + Bump(status.sync_status = "error"),
     clean |-> summary.clean
                + Bump(/\ status.sync_status # "error"
                       /\ status.sync_status = "clean"
                       /\ working_tree_status(status) = "clean"),
     need_push |-> summary.need_push + Bump(needs_push(status)),
     need_pull |-> summary.need_pull + Bump(needs_pull(status)),
     diverged |-> summary.diverged + Bump(is_diverged(status)),
     dirty |-> summary.dirty + Bump(working_tree_status(status) = "dirty"),
     conflict_risk |-> summary.conflict_risk + Bump(has_conflict_risk(status))]

RECURSIVE multi_root_summary_loop(_, _)
multi_root_summary_loop(summary, sts) ==
    IF sts = <<>> THEN summary
    ELSE multi_root_summary_loop(multi_root_summary_step(summary, Head(sts)), Tail(sts))

\* MultiRootFleetManager.get_summary
multi_root_get_summary(lists) ==
    LET all_status_list == extend_all(<<>>, lists)
    IN multi_root_summary_loop(FleetSummary(Len(all_status_list)), all_status_list)

\* A status of the given sync_status, with one untracked file when dirty
StatusSample(path, sync, dirty) ==
    [RepositoryStatus(path) EXCEPT !.sync_status = sync,
                                   !.untracked_count = Bump(dirty)]

SummarySamples ==
    {StatusSample(1, "clean", FALSE), StatusSample(1, "clean", TRUE),
     StatusSample(1, "ahead", FALSE), StatusSample(1, "behind", FALSE),
     StatusSample(1, "behind", TRUE), StatusSample(1, "diverged", FALSE),
     StatusSample(1, "error", FALSE), StatusSample(1, "no_upstream", FALSE)}

StatusLists == UNION {[1..n -> SummarySamples] : n \in 0..MaxStatuses}

\* The status lists of two roots, as get_all_status of a
\* MultiRootFleetManager returns them
InitSummary ==
    /\ FleetIdle
    /\ mr = MrIdle
    /\ pr = PrIdle
    /\ dn = DnIdle
    /\ cli = CliIdle
    /\ hfc = HfcIdle
    /\ gs = GsIdle
    /\ disc = DiscIdle
    /\ \E first \in StatusLists, second \in StatusLists :
         sm = [pc |-> "per_root", lists |-> <<first, second>>, per_root |-> <<>>,
               flat |-> FleetSummary(0), multi |-> FleetSummary(0)]

\* fleet.get_summary(statuses) on the list of the next root
SmRootSummary ==
    /\ sm.pc = "per_root"
    /\ LET k == Len(sm.per_root) + 1 IN
       sm' = [sm EXCEPT !.per_root = Append(@, get_summary(sm.lists[k])),
                        !.pc = IF k = Len(sm.lists) THEN "flat" ELSE "per_root"]
    /\ UNCHANGED <<fleetVars, hfc, gs, disc, cli, dn, pr, mr>>

\* fleet.get_summary over all the statuses in one list
SmFlatSummary ==
    /\ sm.pc = "flat"
    /\ sm' = [sm EXCEPT !.flat = get_summary(extend_all(<<>>, sm.lists)), !.pc = "multi"]
    /\ UNCHANGED <<fleetVars, hfc, gs, disc, cli, dn, pr, mr>>

\* multi_fleet.get_summary(all_statuses)
SmMultiRootSummary ==
    /\ sm.pc = "multi"
    /\ sm' = [sm EXCEPT !.multi = multi_root_get_summary(sm.lists), !.pc = "done"]
    /\ UNCHANGED <<fleetVars, hfc, gs, disc, cli, dn, pr, mr>>

NextSummary ==
    \/ SmRootSummary
    \/ SmFlatSummary
    \/ SmMultiRootSummary

SpecSummary == InitSummary /\ [][NextSummary]_vars

\* ---------------------------------------------- discover_repositories
\* What a path holds on disk: nothing, or a repository (with a remote and on a
\* branch, without any remote, or with a detached HEAD)
DiskKinds == {"absent", "repo", "no_remote", "detached"}

NotCached == [set |-> FALSE, repos |-> <<>>]

Cached(repos) == [set |-> TRUE, repos |-> repos]

RECURSIVE sort_by_path(_)
sort_by_path(S) ==
    IF S = {} THEN <<>>
    ELSE LET least == CHOOSE p \in S : \A q \in S : p <= q
         IN <<least>> \o sort_by_path(S \ {least})

\* The scan of discover_repositories: rglob(".git"), sort by path, then the
\* include_no_remote and include_detached filters
scan(disk, include_no_remote, include_detached) ==
    LET repos == sort_by_path({p \in Paths : disk[p] # "absent"})
        with_remote == IF ~include_no_remote
                       THEN SelectSeq(repos, LAMBDA p : disk[p] # "no_remote")
                       ELSE repos
    IN IF ~include_detached
       THEN SelectSeq(with_remote, LAMBDA p : disk[p] # "detached")
       ELSE with_remote

is_truthy(cache) == cache.set /\ cache.repos # <<>>

\* if self._repositories is not None
is_not_None(cache) == cache.set

\* FleetManager.discover_repositories on the manager d; the fields first,
\* later and scans record the history of the calls
discovered(d) ==
    IF is_not_None(d.cache)
    THEN [d EXCEPT !.ret = d.cache.repos, !.later = TRUE]
    ELSE LET repos == scan(d.disk, d.include_no_remote, d.include_detached)
         IN [d EXCEPT !.cache = Cached(repos),
                      !.ret = repos,
                      !.scans = @ + 1,
                      !.later = d.first.set,
                      !.first = IF d.first.set THEN @ ELSE Cached(repos)]

dropped_in_place(repos) == IF repos = <<>> THEN repos ELSE Tail(repos)

\* What a bulk operation leaves of the list discover_repositories handed it:
\* the list is iterated and zipped, never written
after_bulk_operation(repos) == repos

InitDiscover ==
    /\ FleetIdle
    /\ mr = MrIdle
    /\ pr = PrIdle
    /\ dn = DnIdle
    /\ cli = CliIdle
    /\ hfc = HfcIdle
    /\ gs = GsIdle
    /\ sm = SmIdle
    /\ \E disk \in [Paths -> DiskKinds], inr \in BOOLEAN, idet \in BOOLEAN :
         disc = [pc |-> "constructed", disk |-> disk, include_no_remote |-> inr,
                 include_detached |-> idet, cache |-> NotCached, ret |-> <<>>,
                 first |-> NotCached, later |-> FALSE, changed |-> FALSE, scans |-> 0]

\* A repository appears, disappears, loses its remote or detaches its HEAD
DiscDiskChanges ==
    /\ disc.pc = "constructed"
    /\ \E p \in Paths, k \in DiskKinds :
         /\ k # disc.disk[p]
         /\ disc' = [disc EXCEPT !.disk[p] = k, !.changed = disc.first.set]
    /\ UNCHANGED <<fleetVars, hfc, gs, sm, cli, dn, pr, mr>>

\* A call of discover_repositories
DiscDiscover ==
    /\ disc.pc = "constructed"
    /\ is_not_None(disc.cache) \/ disc.scans < MaxScans
    /\ disc' = discovered(disc)
    /\ UNCHANGED <<fleetVars, hfc, gs, sm, cli, dn, pr, mr>>

\* A bulk operation (get_all_status, fetch_all, pull_all, push_all): it calls
\* discover_repositories and works on the list it gets
DiscBulkOperation ==
    /\ disc.pc = "constructed"
    /\ is_not_None(disc.cache) \/ disc.scans < MaxScans
    /\ LET d == discovered(disc) IN
       disc' = [d EXCEPT !.cache = Cached(after_bulk_operation(d.cache.repos))]
    /\ UNCHANGED <<fleetVars, hfc, gs, sm, cli, dn, pr, mr>>

NextDiscover ==
    \/ DiscDiskChanges
    \/ DiscDiscover
    \/ DiscBulkOperation

SpecDiscover == InitDiscover /\ [][NextDiscover]_vars

\* ------------------------------------------------ the commands' preamble
CliCommands == {"status", "fetch", "pull", "push", "sync", "list", "who", "diff", "remote"}

\* What a line of a roots file is: blank, a comment, a path that is a
\* directory, a path that does not exist, a path that is a file
RootsLines == {"blank", "comment", "directory", "nonexistent", "file"}

RootsFiles == UNION {[1..n -> RootsLines] : n \in 0..MaxLines}

\* load_roots_file: [] when the file cannot be opened, else the lines that are
\* neither blank nor comments and name an existing directory
load_roots_file(exists, lines) ==
    IF ~exists THEN <<>>
    ELSE SelectSeq(lines, LAMBDA line :
            line \notin {"blank", "comment"} /\ line = "directory")

\* resolve_roots_file: $GIT_FLEET_ROOTS if set and an existing file, else the
\* XDG file if it exists, else the legacy file if it exists, else None
resolve_roots_file(c) ==
    IF c.env_set /\ c.env_exists THEN "env"
    ELSE IF c.xdg_exists THEN "xdg"
    ELSE IF c.legacy_exists THEN "legacy"
    ELSE "None"

InitCli ==
    /\ FleetIdle
    /\ mr = MrIdle
    /\ pr = PrIdle
    /\ dn = DnIdle
    /\ hfc = HfcIdle
    /\ gs = GsIdle
    /\ sm = SmIdle
    /\ disc = DiscIdle
    /\ \E cmd \in CliCommands, force \in BOOLEAN, safe_flag \in BOOLEAN,
          given \in {"None", "missing", "exists"}, env \in {"unset", "missing", "exists"},
          xdg \in BOOLEAN, legacy \in BOOLEAN, lines \in RootsFiles :
         /\ cmd # "pull" => ~force /\ ~safe_flag
         /\ cli = [pc |-> "start", cmd |-> cmd, force |-> force, safe |-> safe_flag,
                   roots |-> given, env_set |-> env # "unset",
                   env_exists |-> env = "exists", xdg_exists |-> xdg,
                   legacy_exists |-> legacy, lines |-> lines,
                   resolved_roots |-> "None", root_paths |-> <<>>,
                   global_identity |-> FALSE, discovered |-> FALSE,
                   adapter_calls |-> FALSE, exit_code |-> -1]

\* The command up to `resolved_roots = roots or resolve_roots_file()`: pull
\* rejects --force with --safe, who reads the global identity
CliStart ==
    /\ cli.pc = "start"
    /\ cli' = IF cli.cmd = "pull" /\ cli.force /\ cli.safe
              THEN [cli EXCEPT !.pc = "exited", !.exit_code = 1]
              ELSE [cli EXCEPT !.pc = "resolve", !.global_identity = cli.cmd = "who"]
    /\ UNCHANGED <<fleetVars, hfc, gs, sm, disc, dn, pr, mr>>

\* resolved_roots = roots or resolve_roots_file()
CliResolveRoots ==
    /\ cli.pc = "resolve"
    /\ LET r == IF cli.roots # "None" THEN "given" ELSE resolve_roots_file(cli) IN
       cli' = [cli EXCEPT !.resolved_roots = r,
                          !.pc = IF r # "None" THEN "load" ELSE "single_root"]
    /\ UNCHANGED <<fleetVars, hfc, gs, sm, disc, dn, pr, mr>>

\* root_paths = load_roots_file(resolved_roots); if not root_paths: Exit(1)
CliLoadRoots ==
    /\ cli.pc = "load"
    /\ LET paths == load_roots_file(cli.resolved_roots # "given" \/ cli.roots = "exists",
                                    cli.lines) IN
       cli' = IF paths = <<>>
              THEN [cli EXCEPT !.pc = "exited", !.exit_code = 1]
              ELSE [cli EXCEPT !.pc = "multi_root", !.root_paths = paths]
    /\ UNCHANGED <<fleetVars, hfc, gs, sm, disc, dn, pr, mr>>

\* The multi-root branch: MultiRootFleetManager(root_paths) and its bulk operation
CliMultiRoot ==
    /\ cli.pc = "multi_root"
    /\ cli' = [cli EXCEPT !.pc = "exited", !.discovered = TRUE, !.adapter_calls = TRUE,
                          !.exit_code = 0]
    /\ UNCHANGED <<fleetVars, hfc, gs, sm, disc, dn, pr, mr>>

\* The single-root branch: FleetManager(path or ".") and its bulk operation
CliSingleRoot ==
    /\ cli.pc = "single_root"
    /\ cli' = [cli EXCEPT !.pc = "exited", !.discovered = TRUE, !.adapter_calls = TRUE,
                          !.exit_code = 0]
    /\ UNCHANGED <<fleetVars, hfc, gs, sm, disc, dn, pr, mr>>

NextCli ==
    \/ CliStart
    \/ CliResolveRoots
    \/ CliLoadRoots
    \/ CliMultiRoot
    \/ CliSingleRoot

SpecCli == InitCli /\ [][NextCli]_vars

\* ------------------------------------------------ display names
\* Absolute paths (the roots and the repositories under them are resolved):
\* the directory names below the anchor "/"
Segments == {"a", "b"}

AbsolutePaths == UNION {[1..n -> Segments] : n \in 0..MaxDepth}

\* Path.parts and Path.name
parts(path) == <<"/">> \o path

name(path) == IF path = <<>> THEN "" ELSE path[Len(path)]

reversed(s) == [i \in 1..Len(s) |-> s[Len(s) + 1 - i]]

\* "/".join(s)
RECURSIVE join(_)
join(s) ==
    IF s = <<>> THEN ""
    ELSE IF Len(s) = 1 THEN s[1]
    ELSE s[1] \o "/" \o join(Tail(s))

\* "/".join(reversed(parts[:depth])), parts being the reversed Path.parts
candidate(rparts, depth) == join(reversed(SubSeq(rparts, 1, Min(depth, Len(rparts)))))

always_unique(paths, i, depth) == TRUE

\* The inner loop of _make_paths_unique: no other path has the same candidate
\* at min(depth, its length)
is_unique(paths, i, depth) ==
    \A j \in 1..Len(paths) :
        i # j => candidate(reversed(parts(paths[i])), depth)
                    # candidate(reversed(parts(paths[j])),
                                Min(depth, Len(parts(paths[j]))))

\* The while loop of _make_paths_unique for path i, with its else branch
RECURSIVE unique_name(_, _, _)
unique_name(paths, i, depth) ==
    LET rparts == reversed(parts(paths[i])) IN
    IF depth > Len(rparts) THEN join(reversed(rparts))
    ELSE IF is_unique(paths, i, depth) THEN candidate(rparts, depth)
    ELSE unique_name(paths, i, depth + 1)

make_paths_unique(paths) == [i \in 1..Len(paths) |-> unique_name(paths, i, 1)]

\* name_groups[n]: the paths named n, in input order
name_group(items, n) == SelectSeq(items, LAMBDA path : name(path) = n)

\* The result dictionary: a unique name as it is, else the zip of the group
\* with its unique names (a later pair overwrites an earlier one)
unique_names_by_group(items) ==
    [path \in Range(items) |->
        LET group == name_group(items, name(path))
            k == CHOOSE k \in 1..Len(group) :
                    /\ group[k] = path
                    /\ \A m \in (k + 1)..Len(group) : group[m] # path
        IN IF Len(group) = 1 THEN name(path) ELSE make_paths_unique(group)[k]]

compute_unique_display_names(items) == unique_names_by_group(items)

compute_unique_root_names(root_list) ==
    IF Len(root_list) <= 1 THEN [root \in Range(root_list) |-> name(root)]
    ELSE unique_names_by_group(root_list)

\* Lists of up to NumRepos distinct paths
PathLists ==
    {l \in UNION {[1..n -> AbsolutePaths] : n \in 0..NumRepos} :
        \A i, j \in 1..Len(l) : i # j => l[i] # l[j]}

InitNames ==
    /\ FleetIdle
    /\ mr = MrIdle
    /\ pr = PrIdle
    /\ hfc = HfcIdle
    /\ gs = GsIdle
    /\ sm = SmIdle
    /\ disc = DiscIdle
    /\ cli = CliIdle
    /\ \E l \in PathLists : dn = [pc |-> "start", items |-> l]

DnDisplayNames ==
    /\ dn.pc = "start"
    /\ dn' = [pc |-> "done", items |-> dn.items, fn |-> "compute_unique_display_names",
              names |-> compute_unique_display_names(dn.items)]
    /\ UNCHANGED <<fleetVars, hfc, gs, sm, disc, cli, pr, mr>>

DnRootNames ==
    /\ dn.pc = "start"
    /\ dn' = [pc |-> "done", items |-> dn.items, fn |-> "compute_unique_root_names",
              names |-> compute_unique_root_names(dn.items)]
    /\ UNCHANGED <<fleetVars, hfc, gs, sm, disc, cli, pr, mr>>

NextNames ==
    \/ DnDisplayNames
    \/ DnRootNames

SpecNames == InitNames /\ [][NextNames]_vars

\* ------------------------------------------------ the status listing
\* The attributes of a RepositoryStatus: the dataclass fields and the properties
RepositoryStatusAttributes ==
    {"path", "name", "branch", "remote_branch", "sync_status", "ahead_count",
     "behind_count", "staged_count", "unstaged_count", "untracked_count",
     "last_commit_date", "error_message", "working_tree_status", "needs_push",
     "needs_pull", "is_diverged", "has_conflict_risk", "to_dict"}

AttributeError == [raised |-> "AttributeError"]

\* to_dict: the fields and the derived properties
to_dict(s) ==
    [path |-> s.path, branch |-> s.branch, remote_branch |-> s.remote_branch,
     sync_status |-> s.sync_status, ahead_count |-> s.ahead_count,
     behind_count |-> s.behind_count, staged_count |-> s.staged_count,
     unstaged_count |-> s.unstaged_count, untracked_count |-> s.untracked_count,
     working_tree_status |-> working_tree_status(s), needs_push |-> needs_push(s),
     needs_pull |-> needs_pull(s), has_conflict_risk |-> has_conflict_risk(s),
     error_message |-> s.error_message]

\* _get_sync_icon: the icon, and for an error the first 20 characters of the message
get_sync_icon(s) ==
    IF s.sync_status = "error"
    THEN [icon |-> "error", first |-> 20, of |-> s.error_message]
    ELSE [icon |-> s.sync_status, first |-> 0, of |-> <<>>]

\* _get_branch_display: reads status.branch and status.default_branch
get_branch_display(s) ==
    IF "branch" \notin RepositoryStatusAttributes
       \/ "default_branch" \notin RepositoryStatusAttributes
    THEN AttributeError
    ELSE [branch |-> s.branch]

\* One pass of the for loop of _print_status_table: the cells of the row
table_row(s) ==
    LET sync_icon == get_sync_icon(s)
        wt_status == working_tree_status(s)
        branch_display == get_branch_display(s)
    IN IF branch_display = AttributeError THEN AttributeError
       ELSE [path |-> s.path, warning |-> has_conflict_risk(s),
             branch |-> branch_display, sync |-> sync_icon, working_tree |-> wt_status]

\* What get_status returns in the listing model: the classifications of the
\* probe samples, a failed fetch, a probe that raised
PrintedStatuses(path) ==
    {get_status(path, TRUE, f, NoFault, i, TRUE) : f \in FetchSamples, i \in ProbeSamples}
    \cup {get_status(path, FALSE, FetchOutcome(TRUE, ""), "probe failed", i, TRUE) :
            i \in ProbeSamples}

PrintedLists ==
    UNION {{l \in [1..n -> UNION {PrintedStatuses(p) : p \in Paths}] :
               \A i \in 1..n : l[i].path = i} : n \in 0..MaxStatuses}

InitPrint ==
    /\ FleetIdle
    /\ mr = MrIdle
    /\ hfc = HfcIdle
    /\ gs = GsIdle
    /\ sm = SmIdle
    /\ disc = DiscIdle
    /\ cli = CliIdle
    /\ dn = DnIdle
    /\ \E l \in PrintedLists, use_json \in BOOLEAN :
         pr = [pc |-> "rows", statuses |-> l, use_json |-> use_json, rows |-> <<>>,
               printed |-> FALSE, raised |-> "", exit_code |-> -1]

\* The next status: table.add_row(...) or s.to_dict(); an exception raised
\* on the way ends the command
PrAddRow ==
    /\ pr.pc = "rows"
    /\ Len(pr.rows) < Len(pr.statuses)
    /\ LET s == pr.statuses[Len(pr.rows) + 1]
           row == IF pr.use_json THEN to_dict(s) ELSE table_row(s)
       IN pr' = IF row = AttributeError
                THEN [pr EXCEPT !.pc = "exited", !.raised = "AttributeError",
                                !.exit_code = 1]
                ELSE [pr EXCEPT !.rows = Append(@, row)]
    /\ UNCHANGED <<fleetVars, hfc, gs, sm, disc, cli, dn, mr>>

\* console.print(table) and the summary, or the JSON document; the command returns
PrPrint ==
    /\ pr.pc = "rows"
    /\ Len(pr.rows) = Len(pr.statuses)
    /\ pr' = [pr EXCEPT !.pc = "exited", !.printed = TRUE, !.exit_code = 0]
    /\ UNCHANGED <<fleetVars, hfc, gs, sm, disc, cli, dn, mr>>

NextPrint ==
    \/ PrAddRow
    \/ PrPrint

SpecPrint == InitPrint /\ [][NextPrint]_vars

\* ------------------------------------------------ several roots
\* The directories a roots file can name: B lies inside A, C lies apart.
\* Repository 1 is directly under A, repository 2 under B, the others under C.
RootDirs == {"A", "B", "C"}

RepoDir(path) == IF path = 1 THEN "A" ELSE IF path = 2 THEN "B" ELSE "C"

Within(dir, root) == dir = root \/ (dir = "B" /\ root = "A")

\* root_path.rglob(".git"), sorted by path: every repository below the root
rglob(root) == SelectSeq(SeqOfRange(1, NumRepos), LAMBDA path : Within(RepoDir(path), root))

\* {root: FleetManager(root, ...) for root in self.roots}: one manager per
\* distinct resolved root, in the order of first occurrence
fleet_managers(root_list) ==
    SelectSeq([i \in 1..Len(root_list) |->
                  IF \E j \in 1..(i - 1) : root_list[j] = root_list[i]
                  THEN "" ELSE root_list[i]],
              LAMBDA root : root # "")

RootLists == UNION {[1..n -> RootDirs] : n \in 1..MaxRoots}

BulkOperations == {"status", "fetch", "pull", "push"}

\* all_status_list.extend(statuses) for every root; FleetSummary(total=len(...))
flattened(per_root) == extend_all(<<>>, [i \in 1..Len(per_root) |-> per_root[i].out])

InitMultiRoot ==
    /\ FleetIdle
    /\ hfc = HfcIdle
    /\ gs = GsIdle
    /\ sm = SmIdle
    /\ disc = DiscIdle
    /\ cli = CliIdle
    /\ dn = DnIdle
    /\ pr = PrIdle
    /\ \E l \in RootLists, o \in BulkOperations :
         mr = [pc |-> "loop", roots |-> l, operation |-> o,
               managers |-> fleet_managers(l), results |-> <<>>,
               operated |-> [p \in Paths |-> 0], total |-> 0]

\* One pass of `for root, fleet in self._fleet_managers.items()`: the fleet
\* operation of the root on what it discovers (pull and push on the
\* repositories its statuses select), results.append((root, ...))
MrFleetOperation ==
    /\ mr.pc = "loop"
    /\ Len(mr.results) < Len(mr.managers)
    /\ LET root == mr.managers[Len(mr.results) + 1]
           repos == rglob(root)
       IN \E selected \in SUBSET Range(repos) :
            /\ mr.operation \in {"status", "fetch"} => selected = Range(repos)
            /\ LET out == SelectSeq(repos, LAMBDA path : path \in selected) IN
               mr' = [mr EXCEPT
                        !.results = Append(@, [root |-> root, out |-> out]),
                        !.operated = [p \in Paths |->
                                        IF p \in selected THEN @[p] + 1 ELSE @[p]]]
    /\ UNCHANGED <<fleetVars, hfc, gs, sm, disc, cli, dn, pr>>

\* return results; the caller flattens them and counts
MrReturn ==
    /\ mr.pc = "loop"
    /\ Len(mr.results) = Len(mr.managers)
    /\ mr' = [mr EXCEPT !.pc = "done", !.total = Len(flattened(mr.results))]
    /\ UNCHANGED <<fleetVars, hfc, gs, sm, disc, cli, dn, pr>>

NextMultiRoot ==
    \/ MrFleetOperation
    \/ MrReturn

SpecMultiRoot == InitMultiRoot /\ [][NextMultiRoot]_vars

\* ============================================================ properties
AtPullRun == phase = "run" /\ StageKind = "pull"

Zipped == 1..Min(Len(discover_repositories), Len(statuses))

RepoAt(i) == discover_repositories[i]

PathsOf(s) == {s[i].path : i \in 1..Len(s)}

IsSortedByPath(s) == \A i \in 1..(Len(s) - 1) : s[i].path < s[i + 1].path

NoDuplicates(s) == Cardinality(Range(s)) = Len(s)

\* The repositories whose status needs a pull and that either carry no conflict
\* risk or were cleared by the resolver
SmartPullSet ==
    {RepoAt(i) : i \in {j \in Zipped :
        /\ needs_pull(statuses[j])
        /\ (~has_conflict_risk(statuses[j]) \/ resolved[RepoAt(j)] = "clear")}}

SmartPullSetHolds ==
    /\ Range(repos_to_run) = SmartPullSet
    /\ \A j \in Zipped : resolved[RepoAt(j)] = "conflict" => RepoAt(j) \notin Range(repos_to_run)

C2_SafeSkipsConflictRisk ==
    /\ (AtPullRun /\ args.mode = "safe" /\ statuses # NoStatuses) =>
         Range(repos_to_run) =
            {RepoAt(i) : i \in {j \in Zipped :
                needs_pull(statuses[j]) /\ ~has_conflict_risk(statuses[j])}}
    /\ (args.mode = "safe" => \A x \in running : x.op # "has_file_conflicts")

\* C3: has_file_conflicts returns true when git finds no merge-base; otherwise
\* it returns true exactly when a file the adapter reports as changed between
\* the merge-base and upstream is also reported as changed between the
\* merge-base and HEAD or as dirty (git diff HEAD, or untracked).
C3_HasFileConflicts ==
    hfc.pc = "done" =>
        LET g == hfc.git
            reported(run) == IF run.rc = 0 THEN run.files ELSE {}
            remote_changed == reported(g.remote)
            local_changed == reported(g.local) \cup reported(g.diff_head)
                               \cup reported(g.untracked)
        IN hfc.result = IF g.merge_base_rc # 0 THEN TRUE
                        ELSE (remote_changed \cap local_changed) # {}

\* C3 witness: the merge-base is known, the committed changes are disjoint and
\* the only overlap is an untracked file: the run ends with a conflict.
C3_Witness ==
    /\ hfc.pc = "done"
    /\ hfc.git.merge_base_rc = 0
    /\ hfc.git.remote.rc = 0 /\ hfc.git.local.rc = 0
    /\ hfc.git.remote.files \cap hfc.git.local.files = {}
    /\ hfc.git.diff_head.files = {}
    /\ hfc.git.untracked.rc = 0
    /\ hfc.git.untracked.files \cap hfc.git.remote.files # {}
    /\ hfc.result = TRUE

\* What the selection of pull_all / push_all must yield, dry run or not
EligibleSet ==
    IF ~args.only THEN Range(discover_repositories)
    ELSE IF StageKind = "push"
    THEN {RepoAt(i) : i \in {j \in Zipped : needs_push(statuses[j])}}
    ELSE IF args.mode = "force"
    THEN {RepoAt(i) : i \in {j \in Zipped : needs_pull(statuses[j])}}
    ELSE IF args.mode = "safe"
    THEN {RepoAt(i) : i \in {j \in Zipped :
            needs_pull(statuses[j]) /\ ~has_conflict_risk(statuses[j])}}
    ELSE SmartPullSet

DryRunMessage(operation) ==
    IF operation = "pull" THEN "Would pull (dry-run)" ELSE "Would push (dry-run)"

\* C4: with dry_run the selection of pull_all and push_all is the one of a real
\* run, the returned list holds one entry per selected repository and no other,
\* each with success = true and the message "Would pull (dry-run)" or "Would
\* push (dry-run)", and no pull and no push is ever in flight.
C4_DryRun ==
    /\ (phase = "run" =>
          /\ Range(repos_to_run) = EligibleSet
          /\ NoDuplicates(repos_to_run))
    /\ ((args.dry_run /\ ret.op \in {"pull", "push"}) =>
          /\ Len(ret.out) = Len(ret.input)
          /\ Cardinality(PathsOf(ret.out)) = Len(ret.out)
          /\ \A i \in 1..Len(ret.out) :
               /\ ret.out[i].path = ret.input[i]
               /\ ret.out[i].success
               /\ ret.out[i].operation = ret.op
               /\ ret.out[i].message = DryRunMessage(ret.op))
    /\ (args.dry_run => \A x \in running : x.op \notin {"pull", "push"})

\* C4 witness: a dry-run pull_all with only_behind returned the entries of two
\* selected repositories, a third one not being selected.
C4_Witness ==
    /\ args.dry_run /\ args.only /\ ret.op = "pull"
    /\ Len(ret.out) = 2
    /\ Len(roots[1]) > 2

\* C5 as stated: with dry_run, inside pull_all, push_all and the sync command
\* no call that changes a repository (fetch_all, pull, push) is ever in flight,
\* in any stage and whatever statuses is.
C5_DryRunChangesNothing ==
    (args.dry_run /\ (args.cmd = "sync" \/ StageKind \in {"pull", "push"})) =>
        \A x \in running : x.op \notin {"fetch", "status_fetch", "pull", "push"}

\* A list _execute_parallel returned (not the synthetic list of a dry run)
FromEngine == ret.op # "none" /\ ~(args.dry_run /\ ret.op \in {"pull", "push"})

\* C6: the list _execute_parallel returns holds exactly the collected results,
\* one per input repository, in strictly increasing path order: it is a function
\* of the per-repository results alone, so the for loop, a pool of width 1 and
\* a pool of width 8 return the same list in every completion order.
C6_ExecuteParallel ==
    FromEngine =>
        /\ Len(ret.out) = Len(ret.input)
        /\ PathsOf(ret.out) = Range(ret.input)
        /\ IsSortedByPath(ret.out)
        /\ Range(ret.out) = Range(ret.collected)

\* C6 witness: a pool of width 8 over every repository whose completion order
\* was not the path order.
C6_Witness ==
    /\ FromEngine /\ pooled /\ max_workers = DefaultMaxWorkers
    /\ Len(ret.out) = NumRepos
    /\ ret.collected # ret.out

InQueue(p) == Cardinality({i \in 1..Len(queue) : queue[i] = p})

InFlight(p) == Cardinality({x \in running : x.path = p})

Collected(p) == Cardinality({i \in 1..Len(results) : results[i].path = p})

\* C7: at every moment of a fan-out every input repository is waiting, in
\* flight or has its result, exactly once, whatever failed before; the list
\* returned carries one result per input repository, failures included.
C7_FailureIsolated ==
    /\ (phase \in {"status", "exec"} =>
          \A p \in Range(fan_input) : InQueue(p) + InFlight(p) + Collected(p) = 1)
    /\ (phase = "resolve" =>
          \A p \in Range(needs_check) :
             InQueue(p) + InFlight(p) + (IF resolved[p] # "none" THEN 1 ELSE 0) = 1)
    /\ (FromEngine =>
          \A p \in Range(ret.input) :
             Cardinality({i \in 1..Len(ret.out) : ret.out[i].path = p}) = 1)

\* C7 witness: one operation has failed while a sibling is in flight and
\* another still waits in the pool.
C7_Witness ==
    /\ phase = "exec" /\ op \in {"fetch", "pull", "push"}
    /\ \E i \in 1..Len(results) : ~results[i].success
    /\ running # {}
    /\ queue # <<>>

\* C8: never more than max_workers per-repository operations are in flight, in
\* single-root and in multi-root mode.
C8_InFlightBounded == Cardinality(running) <= max_workers

\* C8 witness: in multi-root mode the pool is full while a repository waits.
C8_Witness ==
    /\ pooled
    /\ Len(roots) > 1
    /\ Cardinality(running) = max_workers
    /\ queue # <<>>

\* C9 as stated: every list a fleet operation returns is sorted by path, in
\* every pull mode, with and without dry_run.
C9_ResultsSorted == ret.op # "none" => IsSortedByPath(ret.out)

SyncOrder == <<"fetch", "status", "pull", "status", "push", "status">>

OpsOfStage(kind) ==
    CASE kind = "fetch" -> {"fetch"}
      [] kind = "status" -> {"status"}
      [] kind = "pull" -> {"has_file_conflicts", "pull"}
      [] kind = "push" -> {"push"}

AllRepositories == UNION {Range(roots[i]) : i \in 1..Len(roots)}

\* C10: during sync every operation in flight belongs to the stage the command
\* is at, the stages being fetch, classify, pull, classify, push, classify in
\* this order; once the command is past the fetch stage, or any other operation
\* is in flight, the fetch of every repository of every root has completed.
C10_SyncBarrier ==
    args.cmd = "sync" =>
        /\ stage \in 1..Len(SyncOrder)
        /\ \A x \in running :
             /\ x.stage = stage
             /\ x.op \in OpsOfStage(SyncOrder[stage])
             /\ (x.op # "fetch" => fetched = AllRepositories)
        /\ (stage > 1 => fetched = AllRepositories)

\* C10 witness: in multi-root mode the push of the second root is in flight.
C10_Witness ==
    /\ args.cmd = "sync"
    /\ Len(roots) > 1
    /\ rootIdx = 2
    /\ \E x \in running : x.op = "push"

\* C11: during sync ops.fetch_all runs at most once on each repository, and
\* exactly once on every repository of every root once the fetch stage is over:
\* the three classifications run without fetch and pull_all and push_all are
\* handed the statuses of their root, so no get_status(fetch_first=True) is
\* ever in flight.
C11_SyncFetchesOnce ==
    args.cmd = "sync" =>
        /\ \A p \in AllRepositories : fetch_all_calls[p] <= 1
        /\ (stage > 1 => \A p \in AllRepositories : fetch_all_calls[p] = 1)
        /\ \A x \in running : x.op # "status_fetch"
        /\ (phase \in {"select", "run"} => statuses # NoStatuses)

\* C11 witness: in multi-root mode the last classification of the second root
\* is in flight, every repository having been fetched once.
C11_Witness ==
    /\ args.cmd = "sync"
    /\ Len(roots) > 1
    /\ stage = Len(SyncOrder)
    /\ rootIdx = 2
    /\ running # {}
    /\ \A p \in AllRepositories : fetch_all_calls[p] = 1

\* The classification as the priority-ordered rule, first match wins
ReferenceSyncStatus(info, remotes) ==
    CASE info.remote_branch # "" /\ info.ahead > 0 /\ info.behind > 0 -> "diverged"
      [] info.remote_branch # "" /\ info.ahead > 0 /\ info.behind = 0 -> "ahead"
      [] info.remote_branch # "" /\ info.ahead = 0 /\ info.behind > 0 -> "behind"
      [] info.remote_branch # "" /\ info.ahead = 0 /\ info.behind = 0 -> "clean"
      [] info.remote_branch = "" /\ info.branch = "(detached)" -> "detached"
      [] info.remote_branch = "" /\ info.branch # "(detached)" /\ remotes -> "no_upstream"
      [] OTHER -> "no_remote"

GsNoFault ==
    /\ ~(gs.in.fetch_first /\ ~gs.in.fetch.success)
    /\ gs.in.probe_fault = NoFault
    /\ gs.in.commit_fault = NoFault

C13_ConflictRisk ==
    gs.pc = "done" =>
        LET s == gs.status
            dirty == s.staged_count > 0 \/ s.unstaged_count > 0 \/ s.untracked_count > 0
        IN /\ has_conflict_risk(s) <=>
                (s.sync_status = "diverged"
                    \/ (s.sync_status \in {"behind", "diverged"} /\ dirty))
           /\ (s.sync_status = "behind" /\ ~dirty => ~has_conflict_risk(s))
           /\ (s.sync_status \in {"clean", "ahead", "no_upstream", "no_remote",
                                  "detached", "error"} => ~has_conflict_risk(s))

\* C13 witness: a behind repository whose only dirt is an untracked file is at
\* risk.
C13_Witness ==
    /\ gs.pc = "done"
    /\ gs.status.sync_status = "behind"
    /\ gs.status.staged_count = 0 /\ gs.status.unstaged_count = 0
    /\ gs.status.untracked_count > 0
    /\ has_conflict_risk(gs.status)

ErrorRepositories ==
    {RepoAt(j) : j \in {i \in Zipped : statuses[i].sync_status = "error"}}

\* C14 as stated: whenever pull_all or push_all has made its selection, no
\* repository whose status is error is in it, in every pull mode.
C14_ErrorNeverSelectedAnyCall ==
    (phase = "run" /\ statuses # NoStatuses) =>
        ErrorRepositories \cap Range(repos_to_run) = {}

\* C14 amended: an error status satisfies neither needs_pull nor needs_push, and
\* with only_behind (pull_all) or only_ahead (push_all) set no repository whose
\* status is error is selected, in every pull mode, while every other
\* repository that is eligible is selected.
C14_ErrorNeverSelected ==
    /\ \A i \in 1..Len(statuses) :
         statuses[i].sync_status = "error" =>
            ~needs_pull(statuses[i]) /\ ~needs_push(statuses[i])
    /\ (phase = "run" /\ args.only) =>
         /\ ErrorRepositories \cap Range(repos_to_run) = {}
         /\ EligibleSet \subseteq Range(repos_to_run)

\* C14 witness: the fetch of one repository failed, its status is error, and
\* another repository of the same root is selected for the pull.
C14_Witness ==
    /\ phase = "run" /\ args.only /\ StageKind = "pull"
    /\ ErrorRepositories # {}
    /\ repos_to_run # <<>>

GsFetchFailed == gs.in.fetch_first /\ ~gs.in.fetch.success

\* C15: every get_status call ends by returning a status.  A failed fetch under
\* fetch_first yields sync_status = error with the message "Fetch failed: "
\* followed by the fetch error, without probing: branch names empty and all
\* counts 0.  Otherwise an exception raised while the status is assembled
\* yields sync_status = error with the text of the exception as message.
\* Without a fault the status is not error.
C15_GetStatusNeverRaises ==
    /\ gs.pc \in {"idle", "fetch", "probe", "last_commit", "done"}
    /\ gs.pc = "done" =>
        LET s == gs.status IN
        IF GsFetchFailed
        THEN /\ s.sync_status = "error"
             /\ s.error_message = <<"Fetch failed: ", gs.in.fetch.error>>
             /\ s.branch = "" /\ s.remote_branch = ""
             /\ s.ahead_count = 0 /\ s.behind_count = 0
             /\ s.staged_count = 0 /\ s.unstaged_count = 0 /\ s.untracked_count = 0
        ELSE IF gs.in.probe_fault # NoFault
        THEN s.sync_status = "error" /\ s.error_message = <<gs.in.probe_fault>>
        ELSE IF gs.in.commit_fault # NoFault
        THEN s.sync_status = "error" /\ s.error_message = <<gs.in.commit_fault>>
        ELSE s.sync_status # "error" /\ s.error_message = <<>>

\* C15 witness: the fetch failed on a repository whose probe would have
\* reported commits and dirty files; the status is error with all counts 0.
C15_Witness ==
    /\ gs.pc = "done" /\ GsFetchFailed
    /\ gs.in.info.behind > 0 /\ gs.in.info.unstaged_count > 0
    /\ gs.status.sync_status = "error"
    /\ gs.status.behind_count = 0

NeedsPullSet == {RepoAt(i) : i \in {j \in Zipped : needs_pull(statuses[j])}}

\* C16 as stated: in force mode the selection of pull_all is exactly the
\* repositories whose status has needs_pull, in every call, and
\* has_file_conflicts never runs.
C16_ForceSelectsNeedsPullAnyCall ==
    /\ (AtPullRun /\ args.mode = "force" /\ statuses # NoStatuses) =>
          Range(repos_to_run) = NeedsPullSet
    /\ (args.mode = "force" => \A x \in running : x.op # "has_file_conflicts")

\* C16 amended: in force mode with only_behind set, the selection of pull_all
\* is exactly the repositories whose status is behind or diverged, those with
\* conflict risk included; in force mode has_file_conflicts never runs and no
\* repository is ever put to the resolver.
C16_ForceSelectsNeedsPull ==
    args.mode = "force" =>
        /\ (AtPullRun /\ args.only) =>
              Range(repos_to_run) =
                 {RepoAt(i) : i \in {j \in Zipped :
                    statuses[j].sync_status \in {"behind", "diverged"}}}
        /\ \A x \in running : x.op # "has_file_conflicts"
        /\ needs_check = <<>>
        /\ resolved = Unresolved

\* C16 witness: force mode selected a diverged repository and a behind one with
\* a dirty tree, and left out a repository that needs no pull.
C16_Witness ==
    /\ AtPullRun /\ args.mode = "force" /\ args.only
    /\ \E a, b, c \in Zipped :
         /\ is_diverged(statuses[a]) /\ RepoAt(a) \in Range(repos_to_run)
         /\ statuses[b].sync_status = "behind"
         /\ working_tree_status(statuses[b]) = "dirty"
         /\ RepoAt(b) \in Range(repos_to_run)
         /\ ~needs_pull(statuses[c]) /\ RepoAt(c) \notin Range(repos_to_run)

StatusOf(p) == statuses[CHOOSE j \in Zipped : RepoAt(j) = p]

AtRisk(p) ==
    /\ \E j \in Zipped : RepoAt(j) = p
    /\ StatusOf(p).sync_status \in {"behind", "diverged"}
    /\ (StatusOf(p).sync_status = "diverged"
          \/ StatusOf(p).staged_count > 0
          \/ StatusOf(p).unstaged_count > 0
          \/ StatusOf(p).untracked_count > 0)

\* How often has_file_conflicts was submitted for p in the current pull_all
ResolverCalls(p) ==
    (IF phase = "resolve" THEN InQueue(p) + InFlight(p) ELSE 0)
        + (IF resolved[p] # "none" THEN 1 ELSE 0)

\* C17: has_file_conflicts runs only inside the resolver pass of pull_all, only
\* for repositories whose status is diverged or behind with a dirty tree, and
\* at most once for each; a behind repository with a clean tree is selected in
\* every mode without having been put to the resolver.
C17_ResolverOnlyForAtRisk ==
    /\ \A x \in running : x.op = "has_file_conflicts" => phase = "resolve" /\ AtRisk(x.path)
    /\ \A p \in Paths :
         /\ ResolverCalls(p) <= 1
         /\ (ResolverCalls(p) = 1 => statuses # NoStatuses /\ AtRisk(p))
    /\ (AtPullRun /\ args.only) =>
         \A j \in Zipped :
            (statuses[j].sync_status = "behind" /\ working_tree_status(statuses[j]) = "clean")
               => (RepoAt(j) \in Range(repos_to_run) /\ resolved[RepoAt(j)] = "none")

\* C17 witness: the resolver runs on a behind repository with a dirty tree while
\* a behind repository with a clean tree is already in the safe list and a
\* third repository needs no pull.
C17_Witness ==
    /\ phase = "resolve"
    /\ \E x \in running, j \in Zipped :
         /\ x.op = "has_file_conflicts" /\ x.path # RepoAt(j)
         /\ StatusOf(x.path).sync_status = "behind"
         /\ statuses[j].sync_status = "behind"
         /\ working_tree_status(statuses[j]) = "clean"
         /\ RepoAt(j) \in Range(safe)
    /\ \E k \in Zipped : ~needs_pull(statuses[k])

ErrorCount(sts) == Cardinality({i \in 1..Len(sts) : sts[i].sync_status = "error"})

IsFullyClean(s) ==
    /\ s.sync_status = "clean"
    /\ s.staged_count = 0 /\ s.unstaged_count = 0 /\ s.untracked_count = 0

FullyCleanCount(sts) == Cardinality({i \in 1..Len(sts) : IsFullyClean(sts[i])})

Counters == {"clean", "need_push", "need_pull", "diverged", "dirty", "conflict_risk", "errors"}

\* C18: the summary get_summary returns for a list of statuses has total = the
\* length of the list, errors = the number of error statuses, clean = the number
\* of statuses that are clean with a clean working tree, every counter between
\* 0 and total, and every counter 0 for the empty list.
C18_SummaryFold ==
    sm.pc # "idle" =>
        \A k \in 1..Len(sm.per_root) :
            LET sts == sm.lists[k]
                summary == sm.per_root[k]
            IN /\ summary.total = Len(sts)
               /\ summary.errors = ErrorCount(sts)
               /\ summary.clean = FullyCleanCount(sts)
               /\ \A c \in Counters : summary[c] >= 0 /\ summary[c] <= summary.total
               /\ (sts = <<>> => summary = FleetSummary(0))

\* C18 witness: a list with a clean status on a dirty tree and a status that is
\* neither clean nor error: clean = 0 and errors = 0 while total > 0.
C18_Witness ==
    /\ sm.pc = "done"
    /\ sm.lists[1] # <<>>
    /\ \E i \in 1..Len(sm.lists[1]) :
         sm.lists[1][i].sync_status = "clean" /\ sm.lists[1][i].untracked_count > 0
    /\ \E i \in 1..Len(sm.lists[1]) : sm.lists[1][i].sync_status = "no_upstream"
    /\ sm.per_root[1].clean = 0
    /\ sm.per_root[1].dirty > 0
    /\ sm.lists[2] = <<>>

RECURSIVE SumOf(_, _)
SumOf(summaries, c) ==
    IF summaries = <<>> THEN 0 ELSE Head(summaries)[c] + SumOf(Tail(summaries), c)

\* C19: the summary MultiRootFleetManager.get_summary returns for per-root
\* status lists equals the summary FleetManager.get_summary returns for their
\* concatenation, and each of its counters is the sum of that counter over the
\* per-root summaries.
C19_MultiRootSummary ==
    sm.pc = "done" =>
        /\ sm.multi = sm.flat
        /\ \A c \in Counters \cup {"total"} : sm.multi[c] = SumOf(sm.per_root, c)

\* C19 witness: two non-empty roots, one holding an error status and the
\* other a repository at conflict risk.
C19_Witness ==
    /\ sm.pc = "done"
    /\ sm.per_root[1].errors > 0
    /\ sm.per_root[2].conflict_risk > 0
    /\ sm.multi.total = Len(sm.lists[1]) + Len(sm.lists[2])
    /\ sm.multi.errors > 0 /\ sm.multi.conflict_risk > 0

\* C20: a FleetManager scans the disk at most once; from the first return of
\* discover_repositories on, the cache holds the list that call returned and
\* every later call, and every bulk operation, gets that same list, whatever
\* has changed on disk, also when the first scan found no repository.
C20_DiscoveryMemoized ==
    disc.pc = "constructed" =>
        /\ disc.scans <= 1
        /\ disc.cache.set = disc.first.set
        /\ disc.first.set =>
             /\ disc.scans = 1
             /\ disc.cache.repos = disc.first.repos
             /\ disc.ret = disc.first.repos

\* C20 witness: the first scan found no repository, repositories appeared on
\* disk afterwards, and a later call still returned the empty list.
C20_Witness ==
    /\ disc.pc = "constructed"
    /\ disc.first.set /\ disc.first.repos = <<>>
    /\ disc.changed /\ disc.later
    /\ scan(disc.disk, disc.include_no_remote, disc.include_detached) # <<>>
    /\ disc.ret = <<>>

NoDirectory(lines) == \A i \in 1..Len(lines) : lines[i] # "directory"

\* The roots file the command is pointed at: the --roots option, else
\* $GIT_FLEET_ROOTS when set, else the first standard location that exists
PointedAt ==
    IF cli.roots # "None" THEN "given"
    ELSE IF cli.env_set THEN "env"
    ELSE IF cli.xdg_exists THEN "xdg"
    ELSE IF cli.legacy_exists THEN "legacy"
    ELSE "None"

PointedAtMissing ==
    \/ PointedAt = "given" /\ cli.roots = "missing"
    \/ PointedAt = "env" /\ ~cli.env_exists

SetupFault ==
    \/ cli.cmd = "pull" /\ cli.force /\ cli.safe
    \/ PointedAtMissing
    \/ PointedAt # "None" /\ ~PointedAtMissing /\ NoDirectory(cli.lines)

\* C21 as stated: a command given --force with --safe, or whose roots file
\* (the --roots option, or the one found through $GIT_FLEET_ROOTS or the
\* standard locations) is missing or names no existing directory, discovers no
\* repository, makes no adapter call and exits with a non-zero code.
C21_SetupFaultAborts ==
    (cli.pc # "idle" /\ SetupFault) =>
        /\ ~cli.discovered
        /\ ~cli.adapter_calls
        /\ (cli.pc = "exited" => cli.exit_code # 0)

\* The last depth segments of a path's parts (all of them when it has fewer)
Trailing(path, depth) ==
    LET p == parts(path) IN SubSeq(p, Len(p) + 1 - Min(depth, Len(p)), Len(p))

SharesLeaf(items, path) ==
    {other \in Range(items) : other # path /\ name(other) = name(path)}

Distinguishes(items, path, depth) ==
    \A other \in SharesLeaf(items, path) : Trailing(path, depth) # Trailing(other, depth)

\* C22: both display-name functions map distinct paths to pairwise distinct
\* names; a path whose leaf name is unique keeps the bare leaf name, and any
\* other path is named by its trailing segments at the smallest depth at which
\* they differ from the same-depth trailing segments of every other path
\* sharing its leaf name.
C22_UniqueDisplayNames ==
    dn.pc = "done" =>
        /\ DOMAIN dn.names = Range(dn.items)
        /\ \A p, q \in Range(dn.items) : p # q => dn.names[p] # dn.names[q]
        /\ \A p \in Range(dn.items) :
            IF SharesLeaf(dn.items, p) = {} THEN dn.names[p] = name(p)
            ELSE \E d \in 1..Len(parts(p)) :
                    /\ Distinguishes(dn.items, p, d)
                    /\ \A e \in 1..(d - 1) : ~Distinguishes(dn.items, p, e)
                    /\ dn.names[p] = join(Trailing(p, d))

C22_Witness ==
    /\ dn.pc = "done"
    /\ Len(dn.items) = 3
    /\ \E p, q \in Range(dn.items) :
        /\ p # q
        /\ name(p) = name(q)
        /\ Len(p) # Len(q)
        /\ dn.names[p] # name(p)
        /\ \E r \in Range(dn.items) : dn.names[r] = name(r)

\* A fan-out call (_execute_parallel or the resolver pass) has been entered and
\* has not returned
InFanOut == phase \in {"status", "resolve", "exec"}

\* C23: no per-repository operation is running outside a fan-out call, every
\* returned _execute_parallel collected one result per submitted repository,
\* and, every per-repository operation terminating, a fan-out call that has
\* been entered returns.
C23_FanOutTerminates ==
    /\ [](~InFanOut => running = {} /\ queue = <<>>)
    /\ [](ret.op # "none" => Len(ret.collected) = Len(ret.input))
    /\ (InFanOut ~> ~InFanOut)

\* C23 witness: a pooled _execute_parallel over several repositories has
\* returned to pull_all, which is selecting with nothing left running.
C23_Witness ==
    /\ phase = "select"
    /\ pooled
    /\ ret.op \in {"status", "status_fetch"}
    /\ Len(ret.input) > 1
    /\ ret.collected # ret.out
    /\ running = {}

\* The stages of sync at which the statuses stored for a root were computed
ObservedAt(root) == {e.stage : e \in {x \in Range(all_statuses) : x.root = root}}

AtSyncPush == args.cmd = "sync" /\ StageKind = "push"

C25_StatusListingCompletes ==
    pr.pc = "exited" =>
        /\ pr.raised = ""
        /\ pr.printed
        /\ pr.exit_code = 0
        /\ Len(pr.rows) = Len(pr.statuses)
        /\ \A i \in 1..Len(pr.rows) :
             pr.statuses[i].sync_status = "error" =>
                IF pr.use_json THEN pr.rows[i].error_message = pr.statuses[i].error_message
                ELSE pr.rows[i].sync.of = pr.statuses[i].error_message

\* A query has_file_conflicts depends on exited non-zero
QueryFailed(g) ==
    \/ g.merge_base_rc # 0
    \/ g.remote.rc # 0
    \/ g.local.rc # 0
    \/ g.diff_head.rc # 0
    \/ g.untracked.rc # 0

\* C26 as stated: has_file_conflicts returns true whenever the merge-base
\* lookup, one of the two changed-file diffs or the dirty-file listing failed;
\* it returns false only when every query succeeded and the file sets are
\* disjoint.
C26_ResolverFailsClosed ==
    hfc.pc = "done" =>
        /\ (QueryFailed(hfc.git) => hfc.result)
        /\ (~hfc.result =>
              /\ ~QueryFailed(hfc.git)
              /\ hfc.git.remote.files \cap
                   (hfc.git.local.files \cup hfc.git.diff_head.files
                      \cup hfc.git.untracked.files) = {})

C28_ZipAligned ==
    phase = "select" =>
        /\ Len(statuses) = Len(discover_repositories)
        /\ \A i \in 1..Len(discover_repositories) : statuses[i].path = RepoAt(i)

\* C28 witness: push_all zips the statuses it computed itself through the pool,
\* the last repository having completed before the first.
C28_Witness ==
    /\ phase = "select"
    /\ StageKind = "push"
    /\ args.cmd = "push"
    /\ Len(ret.collected) = NumRepos
    /\ ret.collected[1].path = NumRepos
    /\ ret.collected[NumRepos].path = 1

\* C29 as stated: in one bulk operation over any list of roots, a root listed
\* twice or nested in another included, every repository is operated on at
\* most once, occurs at most once in the flattened results, and the total
\* counts each repository reported once.
C29_OncePerRepository ==
    /\ \A p \in Paths : mr.pc # "idle" => mr.operated[p] <= 1
    /\ mr.pc = "done" =>
         /\ NoDuplicates(flattened(mr.results))
         /\ mr.total = Cardinality(Range(flattened(mr.results)))

\* What safe mode and force mode select from the repositories and statuses
\* the current pull_all works on
SafePullSet == Range(ZipSelect(discover_repositories, statuses, "safe"))

ForcePullSet == Range(ZipSelect(discover_repositories, statuses, "force"))

\* C30: when pull_all with only_behind has selected, what safe mode selects
\* from the same repositories and statuses is contained in what force mode
\* selects; the selection of a safe run is the former, of a force run the
\* latter, and of a smart run, whatever the resolver answered, lies between
\* the two; every member of the force selection has a status that needs a pull.
C30_PullSetsNested ==
    (AtPullRun /\ args.only) =>
        /\ SafePullSet \subseteq ForcePullSet
        /\ (args.mode = "safe" => Range(repos_to_run) = SafePullSet)
        /\ (args.mode = "force" => Range(repos_to_run) = ForcePullSet)
        /\ (args.mode = "smart" =>
              /\ SafePullSet \subseteq Range(repos_to_run)
              /\ Range(repos_to_run) \subseteq ForcePullSet
              /\ Range(repos_to_run) = SmartPullSet)
        /\ \A p \in ForcePullSet : needs_pull(StatusOf(p))

\* C30 witness: a smart run whose selection is strictly between the safe and
\* the force selection, the safe selection not being empty.
C30_Witness ==
    /\ AtPullRun /\ args.only /\ args.mode = "smart"
    /\ SafePullSet # {}
    /\ SafePullSet # Range(repos_to_run)
    /\ Range(repos_to_run) # ForcePullSet

====
